---- MODULE Spec2Model ----
(***************************************************************************)
(* Behavioural model of the Learning_Typescript repository:                *)
(*   - the to-do form handler of "Todo TS/src/main.ts";                    *)
(*   - the InputFeild React component;                                     *)
(*   - the Player class and filterByProperty of README.md.                 *)
(* Each part has its own specification (Spec, SpecInput, SpecPlayer,       *)
(* SpecFilter); the variables of the other parts stay at their initial     *)
(* values.                                                                 *)
(***************************************************************************)
EXTENDS Integers, Sequences, FiniteSets, TLC

VARIABLES
    \* ---- Todo TS/src/main.ts
    inputValue,     \* todoInput.value, the text held by the field named "title"
    todos,          \* the module-level array `todos`
    console,        \* what console.log has written: one array snapshot per call
    pc,             \* position of myForm.onsubmit: 0 idle, i about to run statement i
    e,              \* the SubmitEvent being handled
    todo,           \* the handler's local `todo`: <<>> until constructed
    submitted,      \* the field's text at each submit event dispatched so far
    pageLoads,      \* how many times the page (and the script) has been loaded
    \* ---- InputFeild component
    todoProp,       \* the `todo` prop handed down by the parent
    rendered,       \* the element tree returned by the last render
    domValue,       \* the text in the rendered input box
    handleAddCalls, \* invocations of the handleAdd prop
    setTodoCalls,   \* invocations of the setTodo prop
    submits,        \* submit events fired on the rendered form
    keystrokes,     \* characters typed into the input box
    navigating,     \* a form submission has started a navigation that has not
                    \* yet replaced the page
    \* ---- README.md, class Player
    player,         \* the Player instance
    ret,            \* what the last read of player.getMyHeight returned
    \* ---- README.md, filterByProperty
    arr,            \* the array argument
    filtered        \* <<>> before the call, <<result>> after it

varsTodo   == <<inputValue, todos, console, pc, e, todo, submitted, pageLoads>>
varsInput  == <<todoProp, rendered, domValue, handleAddCalls, setTodoCalls, submits, keystrokes, navigating>>
varsPlayer == <<player, ret>>
varsFilter == <<arr, filtered>>
vars       == <<varsTodo, varsInput, varsPlayer, varsFilter>>

----------------------------------------------------------------------------
(* Bounds of the model.                                                    *)

MaxSubmits == 3     \* submit events per behaviour of the to-do page
MaxKeys    == 3     \* characters typed into the InputFeild box
MaxClicks  == 2     \* submit events fired on the InputFeild form
MaxNum     == 2     \* numbers handed to Player are 0..MaxNum
MaxArr     == 3     \* length of the array handed to filterByProperty

----------------------------------------------------------------------------
(* JavaScript numbers and String(number).                                  *)
(* A product Math.random() * scale is a decimal in [0, scale): an integer  *)
(* part and the digits after the point (none when the value is whole).     *)

DigitChar == <<"0", "1", "2", "3", "4", "5", "6", "7", "8", "9">>

RECURSIVE IntToString(_)
IntToString(n) ==
    IF n < 10 THEN DigitChar[n + 1]
    ELSE IntToString(n \div 10) \o DigitChar[(n % 10) + 1]

RECURSIVE DigitsToString(_)
DigitsToString(ds) ==
    IF ds = <<>> THEN "" ELSE DigitChar[Head(ds) + 1] \o DigitsToString(Tail(ds))

\* String(x) for a non-negative decimal x below 1e21 and at least 1e-6 (or 0)
String(x) ==
    IF x.frac = <<>> THEN IntToString(x.int)
    ELSE IntToString(x.int) \o "." \o DigitsToString(x.frac)

\* the values Math.random() * scale takes in this model
RandomTimes(scale) ==
    { [int |-> i, frac |-> f] : i \in {0, scale - 1}, f \in {<<>>, <<2, 5>>} }
        \ { [int |-> scale - 1, frac |-> <<>>] }

----------------------------------------------------------------------------
(* Todo TS/src/main.ts                                                     *)

\* texts the user can leave in the title field
Titles == {"", "milk", " "}

\* the statements of myForm.onsubmit, in program order (after two orders
\* the code does not have: logging before the push, preventing last)
HandlerBody_logBeforePush == <<"preventDefault", "construct", "log", "push">>
HandlerBody_preventLast == <<"construct", "push", "log", "preventDefault">>
HandlerBody == <<"preventDefault", "construct", "push", "log">>

Returned == Len(HandlerBody) + 1

AtStatement(s) == pc \in 1..Len(HandlerBody) /\ HandlerBody[pc] = s

\* the object literal of lines 20-24 (after a variant that creates the
\* record completed)
NewTodo_completed(title, rnd) ==
    [title |-> title, isCompleted |-> TRUE, id |-> String(rnd)]
NewTodo(title, rnd) ==
    [title |-> title, isCompleted |-> FALSE, id |-> String(rnd)]

\* Array.prototype.push (after two variants: adding at the front, and
\* overwriting the last element)
Push_unshift(a, x) == <<x>> \o a
Push_replaceLast(a, x) == IF a = <<>> THEN <<x>> ELSE SubSeq(a, 1, Len(a) - 1) \o <<x>>
Push(a, x) == Append(a, x)

\* the user edits the title field (only between event handlers: JavaScript
\* runs a handler to completion)
EditTitle(v) ==
    /\ pc = 0
    /\ v # inputValue
    /\ inputValue' = v
    /\ UNCHANGED <<todos, console, pc, e, todo, submitted, pageLoads>>

\* the browser dispatches a submit event on #myform; onsubmit starts
DispatchSubmit ==
    /\ pc = 0
    /\ Len(submitted) < MaxSubmits
    /\ submitted' = Append(submitted, inputValue)
    /\ e' = [defaultPrevented |-> FALSE]
    /\ todo' = <<>>
    /\ pc' = 1
    /\ UNCHANGED <<inputValue, todos, console, pageLoads>>

\* line 18: e.preventDefault()
PreventDefault ==
    /\ AtStatement("preventDefault")
    /\ e' = [e EXCEPT !.defaultPrevented = TRUE]
    /\ pc' = pc + 1
    /\ UNCHANGED <<inputValue, todos, console, todo, submitted, pageLoads>>

\* lines 20-24: const todo: Todo = {...} (after a variant that returns
\* early on an empty title)
Construct_validating(rnd) ==
    /\ AtStatement("construct")
    /\ IF inputValue = ""
       THEN pc' = Returned /\ todo' = todo
       ELSE pc' = pc + 1 /\ todo' = <<NewTodo(inputValue, rnd)>>
    /\ UNCHANGED <<inputValue, todos, console, e, submitted, pageLoads>>
Construct(rnd) ==
    /\ AtStatement("construct")
    /\ todo' = <<NewTodo(inputValue, rnd)>>
    /\ pc' = pc + 1
    /\ UNCHANGED <<inputValue, todos, console, e, submitted, pageLoads>>

\* line 26: todos.push(todo)
PushTodo ==
    /\ AtStatement("push")
    /\ todo # <<>>
    /\ todos' = Push(todos, todo[1])
    /\ pc' = pc + 1
    /\ UNCHANGED <<inputValue, console, e, todo, submitted, pageLoads>>

\* line 27: console.log(todos)
LogTodos ==
    /\ AtStatement("log")
    /\ console' = Append(console, todos)
    /\ pc' = pc + 1
    /\ UNCHANGED <<inputValue, todos, e, todo, submitted, pageLoads>>

\* the handler has returned: unless the event's default was prevented, the
\* browser submits the form, which navigates and reloads the page, and the
\* script starts over with an empty array and a cleared console and field
AfterHandler ==
    /\ pc = Returned
    /\ pc' = 0
    /\ IF e.defaultPrevented
       THEN UNCHANGED <<inputValue, todos, console, pageLoads>>
       ELSE /\ todos' = <<>>
            /\ console' = <<>>
            /\ inputValue' = ""
            /\ pageLoads' = pageLoads + 1
    /\ UNCHANGED <<e, todo, submitted>>

InitTodo ==
    /\ inputValue = ""
    /\ todos = <<>>
    /\ console = <<>>
    /\ pc = 0
    /\ e = [defaultPrevented |-> FALSE]
    /\ todo = <<>>
    /\ submitted = <<>>
    /\ pageLoads = 1

----------------------------------------------------------------------------
(* The InputFeild component.                                               *)

\* values of the parent's text state; the parent starts with the first
TodoValues == {"", "milk", "x"}
InitialTodo == ""

\* the props object: the callbacks are named by what the parent passed
Props(t) == [todo |-> t, setTodo |-> "setTodo", handleAdd |-> "handleAdd"]

\* An element of the rendered tree; "none" is an attribute that is not set.
\* parent is the index of the enclosing element, 0 for the root.
Element(tag, parent) ==
    [tag |-> tag, parent |-> parent, type |-> "none", className |-> "none",
     placeholder |-> "none", value |-> "none", onSubmit |-> "none",
     onChange |-> "none", text |-> "none"]

\* a variant of the component whose box is bound to the parent's text
InputFeild_controlled(props) ==
    << [Element("form", 0) EXCEPT !.className = "input"],
       [Element("input", 1) EXCEPT !.type = "input",
                                   !.placeholder = "Enter a Task",
                                   !.className = "input__box",
                                   !.value = props.todo,
                                   !.onChange = props.setTodo,
                                   !.onSubmit = props.handleAdd],
       [Element("button", 1) EXCEPT !.className = "input_submit",
                                    !.type = "submit",
                                    !.text = "Go"] >>

\* the JSX returned by InputFeild: <form> holding <input> and <button>
InputFeild(props) ==
    << [Element("form", 0) EXCEPT !.className = "input"],
       [Element("input", 1) EXCEPT !.type = "input",
                                   !.placeholder = "Enter a Task",
                                   !.className = "input__box",
                                   !.onSubmit = props.handleAdd],
       [Element("button", 1) EXCEPT !.className = "input_submit",
                                    !.type = "submit",
                                    !.text = "Go"] >>

InputBox == 2       \* index of <input> in the rendered tree
GoButton == 3       \* index of <button> in the rendered tree

\* the elements an event dispatched at n passes through: n, then its ancestors
RECURSIVE PathToRoot(_, _)
PathToRoot(tree, n) ==
    IF n = 0 THEN <<>> ELSE <<n>> \o PathToRoot(tree, tree[n].parent)

\* the form owner of a control: its nearest enclosing <form> (0 when none)
RECURSIVE FormOf(_, _)
FormOf(tree, n) ==
    IF n = 0 THEN 0
    ELSE IF tree[n].tag = "form" THEN n
    ELSE FormOf(tree, tree[n].parent)

\* the callbacks React invokes for an event of kind prop dispatched at target:
\* those attached under that prop to the target and to its ancestors
Listeners(tree, target, prop) ==
    SelectSeq([i \in 1..Len(PathToRoot(tree, target)) |->
                  tree[PathToRoot(tree, target)[i]][prop]],
              LAMBDA h : h # "none")

CountOf(callbacks, name) == Len(SelectSeq(callbacks, LAMBDA h : h = name))

\* the page is loaded afresh: the parent starts from its initial state, the
\* component is rendered and the box is empty
Mounted ==
    /\ todoProp' = InitialTodo
    /\ rendered' = InputFeild(Props(InitialTodo))
    /\ domValue' = ""
    /\ navigating' = FALSE

\* the user types one character into the input box: a change event is
\* dispatched at the box; a box without a value attribute keeps what is typed
TypeChar(c) ==
    /\ keystrokes < MaxKeys
    /\ keystrokes' = keystrokes + 1
    /\ LET called == Listeners(rendered, InputBox, "onChange")
           typed  == domValue \o c
       IN /\ setTodoCalls' = setTodoCalls + CountOf(called, "setTodo")
          /\ todoProp' = IF CountOf(called, "setTodo") > 0 THEN typed ELSE todoProp
          /\ rendered' = InputFeild(Props(todoProp'))
          /\ domValue' = IF rendered'[InputBox].value = "none"
                         THEN typed ELSE rendered'[InputBox].value
    /\ UNCHANGED <<handleAddCalls, submits, navigating>>

\* the parent renders the component again with another text value
ParentRerender(t) ==
    /\ t # todoProp
    /\ todoProp' = t
    /\ rendered' = InputFeild(Props(t))
    /\ domValue' = IF rendered'[InputBox].value = "none"
                   THEN domValue ELSE rendered'[InputBox].value
    /\ UNCHANGED <<handleAddCalls, setTodoCalls, submits, keystrokes, navigating>>

\* a submit event is dispatched at the form that owns control n; unless a
\* callback that ran prevented the default, the browser submits the form,
\* which starts a navigation. The page stays as it is for now: the
\* navigation replaces it later (PageReload), and until then the old page
\* goes on handling events.
SubmitFrom(n) ==
    /\ submits < MaxClicks
    /\ FormOf(rendered, n) # 0
    /\ submits' = submits + 1
    /\ LET called == Listeners(rendered, FormOf(rendered, n), "onSubmit")
       IN /\ handleAddCalls' = handleAddCalls + CountOf(called, "handleAdd")
          /\ \E prevented \in (IF called = <<>> THEN {FALSE} ELSE BOOLEAN) :
                navigating' = (navigating \/ ~prevented)
    /\ UNCHANGED <<todoProp, rendered, domValue, setTodoCalls, keystrokes>>

\* the navigation started by a form submission completes: the old page is
\* gone and the page is loaded afresh
PageReload ==
    /\ navigating
    /\ Mounted
    /\ UNCHANGED <<handleAddCalls, setTodoCalls, submits, keystrokes>>

\* the user clicks the button "Go"
ClickGo == rendered[GoButton].type = "submit" /\ SubmitFrom(GoButton)

\* the user presses Enter in the input box (implicit submission)
PressEnter == SubmitFrom(InputBox)

InitInput ==
    /\ todoProp = InitialTodo
    /\ rendered = InputFeild(Props(InitialTodo))
    /\ domValue = ""
    /\ handleAddCalls = 0
    /\ setTodoCalls = 0
    /\ submits = 0
    /\ keystrokes = 0
    /\ navigating = FALSE

----------------------------------------------------------------------------
(* README.md: class Player.                                                *)

Nums == 0..MaxNum

\* constructor(private height, public weight, protected power), lines 232-238
NewPlayer(height, weight, power, rnd) ==
    [id |-> String(rnd), height |-> height, weight |-> weight, power |-> power]

\* get getMyHeight(), lines 240-242
getMyHeight(this) == this.height

\* set changeHeight(val), lines 244-246 (after a variant that writes the
\* wrong field)
changeHeight_setsWeight(this, val) == [this EXCEPT !.weight = val]
changeHeight(this, val) == [this EXCEPT !.height = val]

\* const player = new Player(h, w, p); ret keeps the height given to the
\* constructor, the value last assigned through the setter and what a read
\* of the getter returned since
Construction(h, w, p, rnd) ==
    /\ player' = <<NewPlayer(h, w, p, rnd)>>
    /\ ret' = [ctor |-> <<h>>, set |-> <<>>, got |-> <<>>]

\* player.changeHeight = v
SetHeight(v) ==
    /\ player # <<>>
    /\ player' = <<changeHeight(player[1], v)>>
    /\ ret' = [ret EXCEPT !.set = <<v>>, !.got = <<>>]

\* player.weight = v (weight is a public field)
SetWeight(v) ==
    /\ player # <<>>
    /\ player' = <<[player[1] EXCEPT !.weight = v]>>
    /\ UNCHANGED ret

\* player.getMyHeight
ReadHeight ==
    /\ player # <<>>
    /\ ret' = [ret EXCEPT !.got = <<getMyHeight(player[1])>>]
    /\ UNCHANGED player

InitPlayer ==
    /\ player = <<>>
    /\ ret = [ctor |-> <<>>, set |-> <<>>, got |-> <<>>]

----------------------------------------------------------------------------
(* README.md: filterByProperty.                                            *)

\* JavaScript values: a type tag, the NaN flag and the payload
Str(s) == [t |-> "string", nan |-> FALSE, v |-> s]
Num(n) == [t |-> "number", nan |-> FALSE, v |-> n]
NaN    == [t |-> "number", nan |-> TRUE,  v |-> 0]

\* a === b
StrictEq(a, b) == a.t = b.t /\ ~a.nan /\ ~b.nan /\ a.v = b.v

Keys == {"name", "age"}
ValuesOf(key) ==
    IF key = "name" THEN {Str("Alice"), Str("Bob")}
    ELSE {Num(30), Num(25), NaN}

\* the objects the array may hold
Items == { [name |-> n, age |-> a] : n \in {Str("Alice"), Str("Bob")},
                                      a \in {Num(30), Num(25), NaN} }

\* Array.prototype.filter with item => item[key] === value: visits the
\* indices in ascending order and keeps the items the callback accepts
RECURSIVE FilterFrom(_, _, _, _)
FilterFrom(a, key, value, i) ==
    IF i > Len(a) THEN <<>>
    ELSE (IF StrictEq(a[i][key], value) THEN <<a[i]>> ELSE <<>>)
            \o FilterFrom(a, key, value, i + 1)

\* a variant that stops at the first match (Array.prototype.find)
filterByProperty_firstOnly(a, key, value) ==
    IF FilterFrom(a, key, value, 1) = <<>> THEN <<>>
    ELSE <<Head(FilterFrom(a, key, value, 1))>>

filterByProperty(a, key, value) == FilterFrom(a, key, value, 1)

\* const filtered = filterByProperty(arr, key, value)
CallFilter(key, value) ==
    /\ filtered' = <<[key |-> key, value |-> value,
                      result |-> filterByProperty(arr, key, value)]>>
    /\ UNCHANGED arr

InitFilter ==
    /\ arr \in UNION { [1..n -> Items] : n \in 0..MaxArr }
    /\ filtered = <<>>

----------------------------------------------------------------------------
(* Each part alone: the other parts are not running.                       *)

InputIdle ==
    /\ todoProp = InitialTodo
    /\ rendered = <<>>
    /\ domValue = ""
    /\ handleAddCalls = 0
    /\ setTodoCalls = 0
    /\ submits = 0
    /\ keystrokes = 0
    /\ navigating = FALSE

FilterIdle == arr = <<>> /\ filtered = <<>>

\* the to-do page
Init == InitTodo /\ InputIdle /\ InitPlayer /\ FilterIdle

OnlyTodo == UNCHANGED <<varsInput, varsPlayer, varsFilter>>

Next ==
    \/ (\E v \in Titles : EditTitle(v)) /\ OnlyTodo
    \/ DispatchSubmit /\ OnlyTodo
    \/ PreventDefault /\ OnlyTodo
    \/ (\E rnd \in RandomTimes(1000) : Construct(rnd)) /\ OnlyTodo
    \/ PushTodo /\ OnlyTodo
    \/ LogTodos /\ OnlyTodo
    \/ AfterHandler /\ OnlyTodo

Spec == Init /\ [][Next]_vars

\* the InputFeild component, mounted in a page
InitOfInput == InitTodo /\ InitInput /\ InitPlayer /\ FilterIdle

OnlyInput == UNCHANGED <<varsTodo, varsPlayer, varsFilter>>

NextInput ==
    \/ (\E c \in {"a", "b"} : TypeChar(c)) /\ OnlyInput
    \/ (\E t \in TodoValues : ParentRerender(t)) /\ OnlyInput
    \/ ClickGo /\ OnlyInput
    \/ PressEnter /\ OnlyInput
    \/ PageReload /\ OnlyInput

SpecInput == InitOfInput /\ [][NextInput]_vars

\* a program using class Player
OnlyPlayer == UNCHANGED <<varsTodo, varsInput, varsFilter>>

NextPlayer ==
    \/ (\E h \in Nums, w \in {75, 80}, p \in {90},
            rnd \in RandomTimes(100) : Construction(h, w, p, rnd)) /\ OnlyPlayer
    \/ (\E v \in Nums : SetHeight(v)) /\ OnlyPlayer
    \/ (\E v \in {75, 80} : SetWeight(v)) /\ OnlyPlayer
    \/ ReadHeight /\ OnlyPlayer

SpecPlayer == Init /\ [][NextPlayer]_vars

\* a program calling filterByProperty
InitOfFilter == InitTodo /\ InputIdle /\ InitPlayer /\ InitFilter

OnlyFilter == UNCHANGED <<varsTodo, varsInput, varsPlayer>>

NextFilter ==
    \/ (\E key \in Keys : \E value \in ValuesOf(key) : CallFilter(key, value)) /\ OnlyFilter

SpecFilter == InitOfFilter /\ [][NextFilter]_vars

----------------------------------------------------------------------------
(* Properties of the to-do form handler (checked under Spec).              *)

HandlerDone == pc \in {0, Returned}

\* C1: every submission of the form with text v in the title field appends
\* exactly one record, with title = v, isCompleted = false and a non-empty
\* string id: once the handler has returned, the i-th record is the one built
\* from the i-th submission.
C1_SubmitAppendsOneRecord ==
    HandlerDone =>
        /\ Len(todos) = Len(submitted)
        /\ \A i \in 1..Len(todos) :
            /\ todos[i].title = submitted[i]
            /\ todos[i].isCompleted = FALSE
            /\ todos[i].id \in STRING
            /\ todos[i].id # ""

C1_Witness ==
    /\ pc = Returned
    /\ Len(todos) = 2
    /\ todos[1].title = "milk"
    /\ todos[2].title = " "
    /\ todos[1].id = "999.25"
    /\ todos[2].id = "0"

\* C2: the array is empty at page load, a step changes its length only by
\* the handler's push, which adds exactly one, and after n submissions it
\* holds n records in submission order.
C2_LengthCountsSubmissions ==
    /\ todos = <<>>
    /\ [][Len(todos') # Len(todos) =>
            AtStatement("push") /\ Len(todos') = Len(todos) + 1]_vars
    /\ [](HandlerDone =>
            /\ Len(todos) = Len(submitted)
            /\ \A i \in 1..Len(todos) : todos[i].title = submitted[i])

C2_Witness ==
    /\ pc = 0
    /\ Len(submitted) = MaxSubmits
    /\ Len(todos) = MaxSubmits
    /\ todos[1].title # todos[2].title

\* C4: a record, once appended, is never mutated and never removed: every
\* step leaves each record of the array at its index, unchanged.
C4_RecordsAreStable ==
    [][\A i \in 1..Len(todos) : i <= Len(todos') /\ todos'[i] = todos[i]]_vars

C4_Witness ==
    /\ pc = 0
    /\ Len(todos) = 3
    /\ todos[1] # todos[2]
    /\ todos[2] # todos[3]

\* C5: no submission is rejected: a submission whose title field is empty
\* still ends with its own record, of title "", in the array, and every
\* handled submission has grown the array.
C5_EmptyTitleAccepted ==
    \A i \in 1..Len(submitted) :
        (i < Len(submitted) \/ HandlerDone) =>
            /\ i <= Len(todos)
            /\ submitted[i] = "" => todos[i].title = ""

C5_Witness ==
    /\ pc = Returned
    /\ submitted = <<"milk", "">>
    /\ Len(todos) = 2
    /\ todos[2].title = ""

\* C6: each submission writes the array to the console exactly once, after
\* the append: the i-th write shows i records, the last of which is the
\* record of the i-th submission, and the console never runs ahead of the
\* array.
C6_LogAfterAppend ==
    /\ Len(console) <= Len(todos)
    /\ HandlerDone => Len(console) = Len(submitted)
    /\ \A i \in 1..Len(console) :
        /\ Len(console[i]) = i
        /\ console[i][i] = todos[i]
        /\ console[i][i].title = submitted[i]

C6_Witness ==
    /\ pc = Returned
    /\ Len(console) = 2
    /\ console[2] = todos
    /\ console[1] # console[2]

\* C7: preventDefault is called on a submit event before its record is
\* appended, so no submission reloads the page and clears the array.
C7_DefaultPreventedBeforeAppend ==
    /\ (pc # 0 /\ Len(todos) = Len(submitted)) => e.defaultPrevented
    /\ (pc # 0 /\ todo # <<>>) => e.defaultPrevented
    /\ pageLoads = 1

C7_Witness ==
    /\ pc = 0
    /\ Len(submitted) = 2
    /\ Len(todos) = 2
    /\ e.defaultPrevented

----------------------------------------------------------------------------
(* Properties of the InputFeild component (checked under SpecInput).       *)

\* C3: every submit event of the rendered form leads to exactly one
\* invocation of handleAdd. The component attaches handleAdd to the <input>,
\* which a submit event dispatched at the <form> never passes through, so
\* this fails at the first submission.
C3_SubmitForwardedToHandleAdd == handleAddCalls = submits

\* C10: the component never invokes setTodo, whatever the user types or
\* submits, and what it renders is the same for every value of the todo
\* prop: no element shows the prop, and the box holds only what was typed.
C10_TodoAndSetTodoIgnored ==
    /\ setTodoCalls = 0
    /\ \A t \in TodoValues : InputFeild(Props(t)) = rendered
    /\ \A n \in 1..Len(rendered) : rendered[n].value = "none"

C10_Witness ==
    /\ keystrokes = 2
    /\ domValue = "ab"
    /\ submits = 1
    /\ todoProp = "milk"
    /\ ~navigating

----------------------------------------------------------------------------
(* Properties of class Player (checked under SpecPlayer).                  *)

\* C8: a read of getMyHeight returns the value last assigned through
\* changeHeight, or the constructor's height when none was assigned, and an
\* assignment through changeHeight leaves id, weight and power unchanged.
C8_HeightRoundTrip ==
    /\ [](ret.got # <<>> =>
            ret.got[1] = (IF ret.set # <<>> THEN ret.set[1] ELSE ret.ctor[1]))
    /\ [][(\E v \in Nums : SetHeight(v)) =>
            /\ player'[1].id = player[1].id
            /\ player'[1].weight = player[1].weight
            /\ player'[1].power = player[1].power]_vars

C8_Witness ==
    /\ ret.ctor = <<0>>
    /\ ret.set = <<2>>
    /\ ret.got = <<2>>
    /\ player # <<>>
    /\ player[1].weight = 75

----------------------------------------------------------------------------
(* Properties of filterByProperty (checked under SpecFilter).              *)

\* the indices of arr whose item[key] === value
Matching(key, value) ==
    { i \in 1..Len(arr) : StrictEq(arr[i][key], value) }

\* the j-th smallest element of a set of indices
Nth(S, j) == CHOOSE m \in S : Cardinality({ x \in S : x <= m }) = j

\* C9: the result holds exactly the items of arr whose item[key] === value,
\* in their order in arr (so it is empty when none matches), and the call
\* does not modify arr.
C9_FilterKeepsMatchesInOrder ==
    /\ [](filtered # <<>> =>
            LET r == filtered[1].result
                M == Matching(filtered[1].key, filtered[1].value)
            IN /\ Len(r) = Cardinality(M)
               /\ \A j \in 1..Len(r) : r[j] = arr[Nth(M, j)])
    /\ [][arr' = arr]_vars

C9_Witness ==
    /\ Len(arr) = 3
    /\ filtered # <<>>
    /\ filtered[1].key = "age"
    /\ filtered[1].value = Num(30)
    /\ filtered[1].result = <<arr[1], arr[3]>>
    /\ arr[1] # arr[3]
    /\ arr[2].age = NaN

====
